---- MODULE Spec2Model ----
(***************************************************************************)
(* Model of the registration endpoint pages/api/register.ts.               *)
(*                                                                         *)
(* Strings are sequences of one-character strings, so that trimming,       *)
(* lower-casing, number formatting and parseInt are computed, not assumed. *)
(* Every await of the handler is a separate step: a step is one store (or  *)
(* validator) operation followed by the handler's local continuation up to *)
(* the next await.                                                         *)
(***************************************************************************)
EXTENDS Integers, Sequences, FiniteSets

(* ------------------------------ bounds --------------------------------- *)

\* Number of requests the surrounding HTTP runtime delivers, possibly
\* concurrently; they are numbered in their order of arrival.
NumRequests == 3

\* Largest value of the millisecond clock.
MaxClock == 2

Requests == 1..NumRequests

(* ------------------------- values and strings -------------------------- *)

\* JavaScript null (redis.hget of a missing field, a failed .single()).
Null == <<"null">>

\* JavaScript undefined (`let id;` before any assignment).
Undefined == <<"undefined">>

\* A key that JSON.stringify leaves out of the body.
Absent == <<"absent">>

\* The result of parseInt on a string that does not start with a number.
NaN == -1

Digits == <<"0", "1", "2", "3", "4", "5", "6", "7", "8", "9">>

Upper == <<"A", "B", "C", "D">>

Lower == <<"a", "b", "c", "d">>

IsDigit(c) == \E d \in 1..10 : Digits[d] = c

DigitVal(c) == (CHOOSE d \in 1..10 : Digits[d] = c) - 1

\* Number -> decimal string, as redis stores a number passed to hmset and as
\* parseInt coerces a numeric argument.
RECURSIVE NumToString(_)
NumToString(n) ==
  IF n < 10 THEN <<Digits[n + 1]>>
  ELSE NumToString(n \div 10) \o <<Digits[(n % 10) + 1]>>

RECURSIVE ParseDigits(_, _, _)
ParseDigits(s, i, acc) ==
  IF i > Len(s) \/ ~IsDigit(s[i]) THEN acc
  ELSE ParseDigits(s, i + 1, acc * 10 + DigitVal(s[i]))

RECURSIVE TrimLeft(_)
TrimLeft(s) == IF s # <<>> /\ Head(s) = " " THEN TrimLeft(Tail(s)) ELSE s

RECURSIVE TrimRight(_)
TrimRight(s) ==
  IF s # <<>> /\ s[Len(s)] = " " THEN TrimRight(SubSeq(s, 1, Len(s) - 1)) ELSE s

\* String.prototype.trim
Trim(s) == TrimRight(TrimLeft(s))

LowerChar(c) ==
  IF \E i \in 1..Len(Upper) : Upper[i] = c
  THEN Lower[CHOOSE i \in 1..Len(Upper) : Upper[i] = c]
  ELSE c

\* String.prototype.toLowerCase
ToLowerCase(s) == [i \in 1..Len(s) |-> LowerChar(s[i])]

\* parseInt(s, 10): leading white space skipped, then the longest run of
\* digits; NaN when there is none (null and undefined read as "null" and
\* "undefined", which start with no digit).
ParseInt(s) ==
  LET t == TrimLeft(s)
  IN  IF s = Null \/ s = Undefined \/ t = <<>> \/ ~IsDigit(t[1]) THEN NaN
      ELSE ParseDigits(t, 1, 0)

\* JavaScript truthiness of a string-or-null value.
Truthy(s) == s # Null /\ s # Undefined /\ s # <<>>

(* ------------------------------ inputs --------------------------------- *)

Methods == {"POST", "GET"}

\* Raw body.email values; <<>> also stands for a missing field (`|| ''`).
RawEmails ==
  { <<"a", "@", "b", ".", "i", "o">>,
    <<" ", "A", "@", "b", ".", "i", "o", " ">>,
    <<"c", "@", "b", ".", "i", "o">>,
    <<"a", "@", "b">>,
    <<>> }

Tokens == {"good", "bad"}

\* The random identifiers nanoid() can return.
NanoIds == { <<"n", "1">>, <<"n", "2">> }

(* ------------------ collaborators outside the handler ------------------ *)

IsAtomChar(c) == c \notin {" ", "@", "."}

\* A non-empty run of labels separated by single dots.
DottedAtoms(s) ==
  /\ s # <<>>
  /\ s[1] # "."
  /\ s[Len(s)] # "."
  /\ \A i \in 1..Len(s) : s[i] = "." \/ IsAtomChar(s[i])
  /\ \A i \in 1..(Len(s) - 1) : ~(s[i] = "." /\ s[i + 1] = ".")

\* validator's isFQDN with require_tld: at least two labels, the last one of
\* two or more letters.
IsFQDN(d) ==
  /\ DottedAtoms(d)
  /\ \E i \in 1..Len(d) :
       /\ d[i] = "."
       /\ \A j \in (i + 1)..Len(d) : d[j] # "." /\ ~IsDigit(d[j])
       /\ Len(d) - i >= 2

\* validator.isEmail: one "@", a dotted local part and a fully qualified
\* domain after it.
IsEmail(s) ==
  /\ Cardinality({i \in 1..Len(s) : s[i] = "@"}) = 1
  /\ LET at == CHOOSE i \in 1..Len(s) : s[i] = "@"
     IN  /\ DottedAtoms(SubSeq(s, 1, at - 1))
         /\ IsFQDN(SubSeq(s, at + 1, Len(s)))

\* The normalisation with the lower-casing left out.
NormalizeCaseKept(raw) == Trim(raw)

\* ((req.body.email as string) || '').trim().toLowerCase()
Normalize(raw) == ToLowerCase(Trim(raw))

HexEscape(c) ==
  IF c = "@" THEN <<"4", "0">> ELSE IF c = "." THEN <<"2", "e">> ELSE <<c>>

\* emailToId of @lib/redis: a deterministic, collision-free digest of the
\* normalized email.
RECURSIVE EmailToId(_)
EmailToId(e) == IF e = <<>> THEN <<>> ELSE HexEscape(Head(e)) \o EmailToId(Tail(e))

\* validateCaptchaResult of @lib/captcha: the provider's verdict on the token.
ValidateCaptchaResult(tok) == tok = "good"

\* SAMPLE_TICKET_NUMBER of @lib/constants.
SAMPLE_TICKET_NUMBER == 1234

\* The key of a registration's hash: `id:${id}`.
HashKey(i) == <<"i", "d", ":">> \o i

\* String(val) as cookie.serialize's encoder sees an identifier.
JsString(v) ==
  IF v = Undefined THEN <<"u", "n", "d", "e", "f", "i", "n", "e", "d">> ELSE v

PercentEncode(c) ==
  IF c = "@" THEN <<"%", "4", "0">> ELSE IF c = ":" THEN <<"%", "3", "A">> ELSE <<c>>

RECURSIVE EncodeURIComponent(_)
EncodeURIComponent(s) ==
  IF s = <<>> THEN <<>> ELSE PercentEncode(Head(s)) \o EncodeURIComponent(Tail(s))

\* The value part of cookie.serialize(COOKIE, id, {...}).
CookieSerialize(val) == EncodeURIComponent(JsString(val))

\* A body key as res.json writes it: undefined keys are left out.
JsonValue(v) == IF v = Undefined THEN Absent ELSE v

(* ------------------------------- state --------------------------------- *)

VARIABLES
  redis,                \* the key-value client is configured (line 79)
  supabase,             \* the relational client is configured (line 106)
  IS_CAPTCHA_ENABLED,   \* captcha enforcement flag (line 59)
  hashes,               \* key-value store: hash key -> fields of the hash
  count,                \* key-value store: the global counter `count`
  registrations,        \* relational store: rows of table `registrations`
  now,                  \* the millisecond clock
  pc,                   \* where each request's handler is suspended
  method,               \* req.method of the request
  rawEmail,             \* req.body.email of the request
  email,                \* handler local: normalized email
  token,                \* handler local: captcha token
  id,                   \* handler local
  ticketNumber,         \* handler local
  createdAt,            \* handler local
  existingTicketNumberString,  \* handler local (line 81)
  response,             \* what the handler sent
  storeCalls,           \* history: store operations issued for the request
  captchaCalls,         \* history: validator calls made for the request
  prior,                \* history: creations of the request's email answered
                        \*          before the request arrived
  created,              \* history: bodies of the 201 responses sent so far
  overlapped            \* history: two requests were inside their store
                        \*          accesses at the same time

vars ==
  << redis, supabase, IS_CAPTCHA_ENABLED, hashes, count, registrations, now,
     pc, method, rawEmail, email, token, id, ticketNumber, createdAt,
     existingTicketNumberString, response, storeCalls, captchaCalls, prior,
     created, overlapped >>

config == << redis, supabase, IS_CAPTCHA_ENABLED >>

\* Program points at which a store operation of the request is outstanding.
StorePcs == {"hget", "hmget", "incr", "stamp", "hmset", "select", "count", "insert"}

NoResponse ==
  [ status |-> 0, code |-> "none", cookie |-> Absent, id |-> Absent,
    email |-> Absent, ticketNumber |-> NaN, createdAt |-> NaN ]

\* res.status(status).json({ error: { code, message } })
ErrorResponse(status, code) ==
  [ status |-> status, code |-> code, cookie |-> Absent, id |-> Absent,
    email |-> Absent, ticketNumber |-> NaN, createdAt |-> NaN ]

\* A success response with the two success codes exchanged.
SuccessResponseFlipped(statusCode, i, e, t, c) ==
  [ status |-> IF statusCode = 200 THEN 201 ELSE 200, code |-> "ok",
    cookie |-> CookieSerialize(i), id |-> JsonValue(i), email |-> e,
    ticketNumber |-> t, createdAt |-> c ]

\* res.setHeader('Set-Cookie', cookie.serialize(COOKIE, id, ...)) followed by
\* res.status(statusCode).json({ id, email, ticketNumber, createdAt, ... })
SuccessResponse(statusCode, i, e, t, c) ==
  [ status |-> statusCode, code |-> "ok", cookie |-> CookieSerialize(i),
    id |-> JsonValue(i), email |-> e, ticketNumber |-> t, createdAt |-> c ]

\* The values Date.now() (or the relational store's clock) can return.
DateNow == {t \in now..(now + 1) : t <= MaxClock}

\* The `data: null` of a relational query that returned an error.
NullRow == [id |-> Null, email |-> Null, ticket_number |-> NaN, created_at |-> Null]

\* A row of `registrations` read by .eq('email', e).single(): the row when
\* exactly one matches, null otherwise.
Single(e) ==
  LET m == {i \in 1..Len(registrations) : registrations[i].email = e}
  IN  IF Cardinality(m) = 1 THEN registrations[CHOOSE i \in m : TRUE] ELSE NullRow

\* The identifier the relational store generates for its n-th row.
RowId(n) == <<"r">> \o NumToString(n)

Init ==
  /\ redis \in BOOLEAN
  /\ supabase \in BOOLEAN
  /\ IS_CAPTCHA_ENABLED \in BOOLEAN
  /\ hashes = << >>
  /\ count = 0
  /\ registrations = << >>
  /\ now = 1
  /\ pc = [r \in Requests |-> "idle"]
  /\ method = [r \in Requests |-> "none"]
  /\ rawEmail = [r \in Requests |-> Undefined]
  /\ email = [r \in Requests |-> Undefined]
  /\ token = [r \in Requests |-> "none"]
  /\ id = [r \in Requests |-> Undefined]
  /\ ticketNumber = [r \in Requests |-> NaN]
  /\ createdAt = [r \in Requests |-> NaN]
  /\ existingTicketNumberString = [r \in Requests |-> Undefined]
  /\ response = [r \in Requests |-> NoResponse]
  /\ storeCalls = [r \in Requests |-> 0]
  /\ captchaCalls = [r \in Requests |-> 0]
  /\ prior = [r \in Requests |-> {}]
  /\ created = {}
  /\ overlapped = FALSE

\* History bookkeeping shared by every step.
Track ==
  overlapped' =
    (overlapped \/ Cardinality({q \in Requests : pc'[q] \in StorePcs}) >= 2)

\* The body of a 201 response as remembered in `created`.
Creation(resp) ==
  [ email |-> resp.email, id |-> resp.id, ticketNumber |-> resp.ticketNumber,
    createdAt |-> resp.createdAt ]

\* Send a response and end the request.
Reply(r, resp) ==
  /\ response' = [response EXCEPT ![r] = resp]
  /\ pc' = [pc EXCEPT ![r] = "done"]
  /\ created' = IF resp.status = 201 THEN created \cup {Creation(resp)} ELSE created

\* The backend selection with the relational store tried first.
SelectBackendRelationalFirst(r, e) ==
  IF supabase THEN
    /\ pc' = [pc EXCEPT ![r] = "select"]
    /\ storeCalls' = [storeCalls EXCEPT ![r] = @ + 1]
    /\ UNCHANGED << id, ticketNumber, createdAt, response, now, created >>
  ELSE IF redis THEN
    /\ id' = [id EXCEPT ![r] = EmailToId(e)]
    /\ pc' = [pc EXCEPT ![r] = "hget"]
    /\ storeCalls' = [storeCalls EXCEPT ![r] = @ + 1]
    /\ UNCHANGED << ticketNumber, createdAt, response, now, created >>
  ELSE
    \E n \in NanoIds, t \in DateNow :
      /\ id' = [id EXCEPT ![r] = n]
      /\ ticketNumber' = [ticketNumber EXCEPT ![r] = SAMPLE_TICKET_NUMBER]
      /\ createdAt' = [createdAt EXCEPT ![r] = t]
      /\ now' = t
      /\ Reply(r, SuccessResponse(200, n, e, SAMPLE_TICKET_NUMBER, t))
      /\ UNCHANGED storeCalls

(* Lines 72-80 and 135-140: with the validation passed, pick the backend.   *)
(* The key-value branch derives the id and issues hget; the relational      *)
(* branch issues the select; with no backend the sample answer is sent at   *)
(* once.                                                                    *)
SelectBackend(r, e) ==
  IF redis THEN
    /\ id' = [id EXCEPT ![r] = EmailToId(e)]
    /\ pc' = [pc EXCEPT ![r] = "hget"]
    /\ storeCalls' = [storeCalls EXCEPT ![r] = @ + 1]
    /\ UNCHANGED << ticketNumber, createdAt, response, now, created >>
  ELSE IF supabase THEN
    /\ pc' = [pc EXCEPT ![r] = "select"]
    /\ storeCalls' = [storeCalls EXCEPT ![r] = @ + 1]
    /\ UNCHANGED << id, ticketNumber, createdAt, response, now, created >>
  ELSE
    \E n \in NanoIds, t \in DateNow :
      /\ id' = [id EXCEPT ![r] = n]
      /\ ticketNumber' = [ticketNumber EXCEPT ![r] = SAMPLE_TICKET_NUMBER]
      /\ createdAt' = [createdAt EXCEPT ![r] = t]
      /\ now' = t
      /\ Reply(r, SuccessResponse(200, n, e, SAMPLE_TICKET_NUMBER, t))
      /\ UNCHANGED storeCalls

\* A method check that refuses DELETE alone.
NotPostOnlyDelete(m) == m = "DELETE"

\* Line 39: req.method !== 'POST'
NotPost(m) == m # "POST"

\* An email check that refuses the empty string alone.
BadEmailOnlyEmpty(e) == e = <<>>

\* Line 50: !validator.isEmail(email)
BadEmail(e) == ~IsEmail(e)

\* A captcha check whose verdict is not looked at.
CaptchaRejectedNever(isCaptchaValid) == FALSE

\* Line 62: !isCaptchaValid
CaptchaRejected(isCaptchaValid) == ~isCaptchaValid

(* Lines 39-59: the handler is invoked; method check, normalisation and     *)
(* email check run without suspension.                                      *)
Receive(r) ==
  /\ pc[r] = "idle"
  /\ \A q \in 1..(r - 1) : pc[q] # "idle"
  /\ \E m \in Methods, raw \in RawEmails, tok \in Tokens :
       /\ method' = [method EXCEPT ![r] = m]
       /\ IF NotPost(m) THEN
              /\ Reply(r, ErrorResponse(501, "method_unknown"))
              /\ UNCHANGED << rawEmail, email, token, id, ticketNumber,
                              createdAt, now, storeCalls, prior >>
            ELSE
              LET e == Normalize(raw)
              IN  /\ rawEmail' = [rawEmail EXCEPT ![r] = raw]
                  /\ email' = [email EXCEPT ![r] = e]
                  /\ token' = [token EXCEPT ![r] = tok]
                  /\ prior' = [prior EXCEPT ![r] = {c \in created : c.email = e}]
                  /\ IF BadEmail(e) THEN
                       /\ Reply(r, ErrorResponse(400, "bad_email"))
                       /\ UNCHANGED << id, ticketNumber, createdAt, now, storeCalls >>
                     ELSE IF IS_CAPTCHA_ENABLED THEN
                       /\ pc' = [pc EXCEPT ![r] = "captcha"]
                       /\ UNCHANGED << id, ticketNumber, createdAt, now, storeCalls,
                                       response, created >>
                     ELSE SelectBackend(r, e)
  /\ Track
  /\ UNCHANGED << config, hashes, count, registrations,
                  existingTicketNumberString, captchaCalls >>

(* Lines 60-70: the validator answers.                                      *)
Captcha(r) ==
  /\ pc[r] = "captcha"
  /\ captchaCalls' = [captchaCalls EXCEPT ![r] = @ + 1]
  /\ IF CaptchaRejected(ValidateCaptchaResult(token[r])) THEN
       /\ Reply(r, ErrorResponse(400, "bad_captcha"))
       /\ UNCHANGED << id, ticketNumber, createdAt, now, storeCalls >>
     ELSE SelectBackend(r, email[r])
  /\ Track
  /\ UNCHANGED << config, hashes, count, registrations, method, rawEmail, email, token,
                  existingTicketNumberString, prior >>

(* ------------------------- key-value backend --------------------------- *)

\* redis.hget(key, field): the field's string, null when the hash or the
\* field is missing.
Hget(key, field) == IF key \in DOMAIN hashes THEN hashes[key][field] ELSE Null

\* An hmset whose ticketNumber and createdAt values are exchanged.
HmsetSwapped(key, e, t, c) ==
  [k \in DOMAIN hashes \cup {key} |->
     IF k = key
     THEN [email |-> e, ticketNumber |-> NumToString(c), createdAt |-> NumToString(t)]
     ELSE hashes[k]]

\* redis.hmset(key, 'email', e, 'ticketNumber', t, 'createdAt', c): the
\* fields are stored as strings under the key.
Hmset(key, e, t, c) ==
  [k \in DOMAIN hashes \cup {key} |->
     IF k = key
     THEN [email |-> e, ticketNumber |-> NumToString(t), createdAt |-> NumToString(c)]
     ELSE hashes[k]]

\* A lookup whose result is never taken as a hit.
ExistsNever(s) == FALSE

\* Line 83: the branch taken on the looked-up ticket number.
Exists(s) == Truthy(s)

(* Lines 81-83: hget answers; the handler branches on the result. *)
KvHget(r) ==
  /\ pc[r] = "hget"
  /\ LET s == Hget(HashKey(id[r]), "ticketNumber")
     IN  /\ existingTicketNumberString' =
               [existingTicketNumberString EXCEPT ![r] = s]
         /\ pc' = [pc EXCEPT ![r] = IF Exists(s) THEN "hmget" ELSE "incr"]
  /\ storeCalls' = [storeCalls EXCEPT ![r] = @ + 1]
  /\ Track
  /\ UNCHANGED << config, hashes, count, registrations, now, method, rawEmail, email, token, id,
                  ticketNumber, createdAt, response, captchaCalls, prior,
                  created >>

\* An existing-record path that also advances the counter.
KvHmgetCounting(r) ==
  /\ pc[r] = "hmget"
  /\ count' = count + 1
  /\ LET t == ParseInt(existingTicketNumberString[r])
         c == ParseInt(Hget(HashKey(id[r]), "createdAt"))
     IN  /\ ticketNumber' = [ticketNumber EXCEPT ![r] = t]
         /\ createdAt' = [createdAt EXCEPT ![r] = c]
         /\ Reply(r, SuccessResponse(200, id[r], email[r], t, c))
  /\ Track
  /\ UNCHANGED << config, hashes, registrations, now, method, rawEmail,
                  email, token, id, existingTicketNumberString, storeCalls,
                  captchaCalls, prior >>

(* Lines 84-90 and 143-161: hmget answers; the stored record is returned. *)
KvHmget(r) ==
  /\ pc[r] = "hmget"
  /\ LET t == ParseInt(existingTicketNumberString[r])
         c == ParseInt(Hget(HashKey(id[r]), "createdAt"))
     IN  /\ ticketNumber' = [ticketNumber EXCEPT ![r] = t]
         /\ createdAt' = [createdAt EXCEPT ![r] = c]
         /\ Reply(r, SuccessResponse(200, id[r], email[r], t, c))
  /\ Track
  /\ UNCHANGED << config, hashes, count, registrations, now, method, rawEmail, email, token, id,
                  existingTicketNumberString, storeCalls, captchaCalls, prior >>

\* An increment that answers with the counter's old value.
IncrStale(c) == c

\* An increment that advances the counter by two.
IncrTwice(c) == c + 2

\* redis.incr: the counter's new value.
Incr(c) == c + 1

(* Line 92: the store increments `count` atomically and returns it. *)
KvIncr(r) ==
  /\ pc[r] = "incr"
  /\ count' = Incr(count)
  /\ ticketNumber' = [ticketNumber EXCEPT ![r] = Incr(count)]
  /\ pc' = [pc EXCEPT ![r] = "stamp"]
  /\ Track
  /\ UNCHANGED << config, hashes, registrations, now, method, rawEmail, email, token, id,
                  createdAt, existingTicketNumberString, response, storeCalls,
                  captchaCalls, prior, created >>

(* Lines 93-94: the continuation reads the clock and issues hmset. *)
KvStamp(r) ==
  /\ pc[r] = "stamp"
  /\ \E t \in DateNow :
       /\ createdAt' = [createdAt EXCEPT ![r] = t]
       /\ now' = t
  /\ pc' = [pc EXCEPT ![r] = "hmset"]
  /\ storeCalls' = [storeCalls EXCEPT ![r] = @ + 1]
  /\ Track
  /\ UNCHANGED << config, hashes, count, registrations, method, rawEmail, email, token, id,
                  ticketNumber, existingTicketNumberString, response,
                  captchaCalls, prior, created >>

(* Lines 94-104 and 143-161: hmset is applied; the new record is returned. *)
KvHmset(r) ==
  /\ pc[r] = "hmset"
  /\ hashes' = Hmset(HashKey(id[r]), email[r], ticketNumber[r], createdAt[r])
  /\ Reply(r, SuccessResponse(201, id[r], email[r], ticketNumber[r], createdAt[r]))
  /\ Track
  /\ UNCHANGED << config, count, registrations, now, method, rawEmail, email, token, id,
                  ticketNumber, createdAt, existingTicketNumberString,
                  storeCalls, captchaCalls, prior >>

(* ------------------------- relational backend -------------------------- *)

\* The count taken as the ticket number, without the increment.
NextTicketPostfix(total) == total

\* Lines 122-124: count all rows, add one.
NextTicket(total) == total + 1

\* Line 128: the row the store inserts for the request, stamped by the store.
NewRow(r, t) ==
  [ id |-> RowId(Len(registrations) + 1), email |-> email[r],
    ticket_number |-> ticketNumber[r], created_at |-> NumToString(t) ]

(* Lines 107-120 and 143-161: the select answers; an existing row is       *)
(* returned, with `id` never assigned on this branch.                      *)
SbSelect(r) ==
  /\ pc[r] = "select"
  /\ LET existingRegistration == Single(email[r])
     IN  IF existingRegistration # NullRow THEN
           LET t == ParseInt(NumToString(existingRegistration.ticket_number))
               c == ParseInt(existingRegistration.created_at)
           IN  /\ ticketNumber' = [ticketNumber EXCEPT ![r] = t]
               /\ createdAt' = [createdAt EXCEPT ![r] = c]
               /\ Reply(r, SuccessResponse(200, id[r], email[r], t, c))
               /\ UNCHANGED storeCalls
         ELSE
           /\ pc' = [pc EXCEPT ![r] = "count"]
           /\ storeCalls' = [storeCalls EXCEPT ![r] = @ + 1]
           /\ UNCHANGED << ticketNumber, createdAt, response, created >>
  /\ Track
  /\ UNCHANGED << config, hashes, count, registrations, now, method, rawEmail, email, token, id,
                  existingTicketNumberString, captchaCalls, prior >>

(* Lines 122-126: the count answers; the insert is issued. *)
SbCount(r) ==
  /\ pc[r] = "count"
  /\ ticketNumber' = [ticketNumber EXCEPT ![r] = NextTicket(Len(registrations))]
  /\ pc' = [pc EXCEPT ![r] = "insert"]
  /\ storeCalls' = [storeCalls EXCEPT ![r] = @ + 1]
  /\ Track
  /\ UNCHANGED << config, hashes, count, registrations, now, method, rawEmail, email, token, id,
                  createdAt, existingTicketNumberString, response,
                  captchaCalls, prior, created >>

(* Lines 126-133 and 143-161: the row is inserted; the new record is       *)
(* returned.                                                               *)
SbInsert(r) ==
  /\ pc[r] = "insert"
  /\ \E t \in DateNow :
       LET data == NewRow(r, t)
           c == ParseInt(data.created_at)
       IN  /\ registrations' = Append(registrations, data)
           /\ now' = t
           /\ id' = [id EXCEPT ![r] = data.id]
           /\ createdAt' = [createdAt EXCEPT ![r] = c]
           /\ Reply(r, SuccessResponse(201, data.id, email[r], ticketNumber[r], c))
  /\ Track
  /\ UNCHANGED << config, hashes, count, method, rawEmail, email, token, ticketNumber,
                  existingTicketNumberString, storeCalls, captchaCalls, prior >>

(* --------------------------- specifications ---------------------------- *)

Step(r) ==
  \/ Receive(r)
  \/ Captcha(r)
  \/ KvHget(r)
  \/ KvHmget(r)
  \/ KvIncr(r)
  \/ KvStamp(r)
  \/ KvHmset(r)
  \/ SbSelect(r)
  \/ SbCount(r)
  \/ SbInsert(r)

Next == \E r \in Requests : Step(r)

\* Requests handled concurrently by the HTTP runtime.
Spec == Init /\ [][Next]_vars

\* No other request is under way.
Alone(r) == \A q \in Requests \ {r} : pc[q] \in {"idle", "done"}

SeqNext == \E r \in Requests : Alone(r) /\ Step(r)

\* Requests handled one at a time.
SeqSpec == Init /\ [][SeqNext]_vars

(* ------------------------------ properties ----------------------------- *)

Done(r) == pc[r] = "done"

Success(r) == Done(r) /\ response[r].code = "ok"

\* No request is between its arrival and its response.
Quiescent == \A r \in Requests : pc[r] \in {"idle", "done"}

\* The ticket numbers held by the records of the key-value store.
StoredTickets == {ParseInt(hashes[k].ticketNumber) : k \in DOMAIN hashes}

\* Every ticket number handed out so far, stored, answered or still held by a
\* handler.
AssignedTickets ==
  StoredTickets
    \cup {c.ticketNumber : c \in created}
    \cup {ticketNumber[q] : q \in {x \in Requests : ticketNumber[x] # NaN}}

\* C1: once a registration for an email has been created, every later request
\* for that email that passes validation is answered 200 with the id,
\* ticketNumber and createdAt the creating request returned.
C1_RepeatReturnsCreated ==
  \A r \in Requests :
    (Success(r) /\ prior[r] # {}) =>
      /\ response[r].status = 200
      /\ \A c \in prior[r] :
           /\ response[r].id = c.id
           /\ response[r].ticketNumber = c.ticketNumber
           /\ response[r].createdAt = c.createdAt

\* C2: in the key-value variant a request that finds no registration for its
\* email takes the creation path, is handed a ticket number greater than every
\* ticket number assigned before (1 when the counter is 0), and answers 201
\* with that number.
C2_FreshTicketGreater ==
  [][ redis =>
        \A r \in Requests :
          /\ (pc[r] = "hget" /\ pc'[r] # "hget"
                /\ HashKey(EmailToId(email[r])) \notin DOMAIN hashes)
               => pc'[r] = "incr"
          /\ (pc[r] = "incr" /\ pc'[r] # "incr")
               => /\ \A t \in AssignedTickets : ticketNumber'[r] > t
                  /\ count = 0 => ticketNumber'[r] = 1
          /\ (pc[r] = "hmset" /\ pc'[r] # "hmset")
               => /\ response'[r].status = 201
                  /\ response'[r].ticketNumber = ticketNumber[r]
                  /\ response'[r].ticketNumber > 0 ]_vars

\* C2 witness: a second registration was answered 201 with ticket number 2.
C2_Witness ==
  /\ redis
  /\ \E r \in Requests : Done(r) /\ response[r].status = 201
                           /\ response[r].ticketNumber = 2
  /\ \E c \in created : c.ticketNumber = 1

KvOnePerEmail ==
  \A k1, k2 \in DOMAIN hashes :
    ToLowerCase(Trim(hashes[k1].email)) = ToLowerCase(Trim(hashes[k2].email))
      => k1 = k2

SbOnePerEmail ==
  \A i, j \in 1..Len(registrations) :
    ToLowerCase(Trim(registrations[i].email))
        = ToLowerCase(Trim(registrations[j].email))
      => i = j

\* C3 as claimed: on either backend the store never holds two registrations
\* with the same normalized email.
C3_OnePerEmail == KvOnePerEmail /\ SbOnePerEmail

\* C3 amended: the key-value store never holds two registrations with the same
\* normalized email, and the relational store holds none as long as no two
\* requests' store accesses have overlapped.
C3_OnePerEmailUnlessRaced == KvOnePerEmail /\ (~overlapped => SbOnePerEmail)

\* C3 witness: two concurrent requests for one email both created it in the
\* key-value store, which holds a single record.
C3_Witness ==
  /\ redis
  /\ overlapped
  /\ \A r \in Requests : Done(r) /\ response[r].status = 201
  /\ Cardinality({response[r].email : r \in Requests}) = 1
  /\ Cardinality(DOMAIN hashes) = 1

\* C4 as claimed: a persisted registration never changes in the store.
C4_Immutable ==
  [][ /\ \A k \in DOMAIN hashes : k \in DOMAIN hashes' /\ hashes'[k] = hashes[k]
      /\ \A i \in 1..Len(registrations) :
           i <= Len(registrations') /\ registrations'[i] = registrations[i] ]_vars

\* C4 amended: a persisted registration keeps its id and email for ever, a
\* relational row never changes at all, and a key-value record keeps its
\* ticketNumber and createdAt unless two requests' store accesses have
\* overlapped.
C4_ImmutableUnlessRaced ==
  [][ /\ \A k \in DOMAIN hashes :
           /\ k \in DOMAIN hashes'
           /\ hashes'[k].email = hashes[k].email
           /\ (~overlapped => hashes'[k] = hashes[k])
      /\ \A i \in 1..Len(registrations) :
           i <= Len(registrations') /\ registrations'[i] = registrations[i] ]_vars

\* C4 witness: with no overlap, a later request for a stored email was
\* answered from the record, which still holds what the creation returned.
C4_Witness ==
  /\ redis
  /\ ~overlapped
  /\ \E r \in Requests :
       /\ Done(r) /\ response[r].status = 200
       /\ \E c \in created :
            /\ c.email = response[r].email
            /\ HashKey(c.id) \in DOMAIN hashes
            /\ hashes[HashKey(c.id)].ticketNumber = NumToString(c.ticketNumber)
            /\ hashes[HashKey(c.id)].createdAt = NumToString(c.createdAt)

\* C5 as claimed: in the key-value variant, whenever no request is in flight,
\* the stored ticket numbers are exactly 1..count.
C5_GapFree == (redis /\ Quiescent) => StoredTickets = 1..count

\* C5 amended: in the key-value variant, whenever no request is in flight, the
\* ticket numbers answered are exactly 1..count, the stored ones are distinct
\* members of 1..count, and they are all of 1..count unless two requests'
\* store accesses have overlapped.
C5_GapFreeUnlessRaced ==
  (redis /\ Quiescent) =>
    /\ {c.ticketNumber : c \in created} = 1..count
    /\ StoredTickets \subseteq 1..count
    /\ Cardinality(StoredTickets) = Cardinality(DOMAIN hashes)
    /\ ~overlapped => StoredTickets = 1..count

\* C5 witness: two registrations made one after the other hold 1 and 2.
C5_Witness ==
  /\ redis /\ Quiescent /\ ~overlapped
  /\ count = 2
  /\ StoredTickets = {1, 2}

\* C6: in the relational variant a row's ticket number is the row count its
\* request read plus one: it never exceeds the row's position, it equals the
\* position as long as no two requests' store accesses have overlapped, and
\* (witness) two overlapping requests for different emails store the same one.
C6_TicketIsCountReadPlusOne ==
  \A i \in 1..Len(registrations) :
    /\ registrations[i].ticket_number >= 1
    /\ registrations[i].ticket_number <= i
    /\ ~overlapped => registrations[i].ticket_number = i

\* C6 witness: two rows for different emails carry the same ticket number.
C6_Witness ==
  /\ supabase /\ ~redis
  /\ \E i, j \in 1..Len(registrations) :
       /\ registrations[i].email # registrations[j].email
       /\ registrations[i].ticket_number = registrations[j].ticket_number

\* The stores are touched only by requests that issued a store operation.
StoreUntouched == hashes = << >> /\ count = 0 /\ registrations = << >>

\* C7: a POST whose normalized email fails the format check is answered 400
\* bad_email at once, without a validator call or a store operation, on every
\* backend.
C7_BadEmailNeverReachesStore ==
  /\ \A r \in Requests :
       (method[r] = "POST" /\ ~IsEmail(email[r])) =>
         /\ Done(r)
         /\ response[r] = ErrorResponse(400, "bad_email")
         /\ storeCalls[r] = 0
         /\ captchaCalls[r] = 0
  /\ (\A r \in Requests : method[r] = "POST" => ~IsEmail(email[r]))
       => StoreUntouched

\* C7 witness: an address without a top-level domain was refused.
C7_Witness ==
  \E r \in Requests :
    /\ Done(r)
    /\ email[r] = <<"a", "@", "b">>
    /\ response[r].code = "bad_email"

\* C8: with captcha enforcement on, a POST with a valid email whose token the
\* validator refuses is answered 400 bad_captcha after one validator call and
\* no store operation, and the stores are as they were.
C8_BadCaptchaNoSideEffect ==
  /\ \A r \in Requests :
       (IS_CAPTCHA_ENABLED /\ method[r] = "POST" /\ IsEmail(email[r])
          /\ pc[r] # "captcha" /\ ~ValidateCaptchaResult(token[r])) =>
         /\ Done(r)
         /\ response[r] = ErrorResponse(400, "bad_captcha")
         /\ storeCalls[r] = 0
         /\ captchaCalls[r] = 1
  /\ (IS_CAPTCHA_ENABLED
        /\ \A r \in Requests : ~ValidateCaptchaResult(token[r]))
       => StoreUntouched

\* C8 witness: a request with a valid email and a refused token has ended.
C8_Witness ==
  \E r \in Requests :
    /\ IS_CAPTCHA_ENABLED
    /\ Done(r)
    /\ IsEmail(email[r])
    /\ token[r] = "bad"
    /\ response[r].code = "bad_captcha"

\* C9: on every success response the body carries an id and the cookie is
\* that id, serialized.
C9_BodyIdMatchesCookie ==
  \A r \in Requests :
    Success(r) =>
      /\ response[r].id # Absent
      /\ response[r].cookie = EncodeURIComponent(response[r].id)

\* C10: only 200 and 201 responses carry the cookie, 400 and 501 responses
\* carry none, and a request that is not a POST is answered 501 with no
\* normalisation, validator call or store operation.
C10_CookieOnlyOnSuccess ==
  \A r \in Requests :
    /\ Done(r) =>
         /\ response[r].cookie # Absent <=> response[r].status \in {200, 201}
         /\ response[r].status \in {400, 501} => response[r].cookie = Absent
         /\ response[r].status = 501 <=> method[r] # "POST"
    /\ method[r] \notin {"none", "POST"} =>
         /\ Done(r)
         /\ response[r] = ErrorResponse(501, "method_unknown")
         /\ email[r] = Undefined
         /\ captchaCalls[r] = 0
         /\ storeCalls[r] = 0

\* C10 witness: a GET was answered 501 and a POST was answered 400.
C10_Witness ==
  /\ \E r \in Requests : Done(r) /\ method[r] = "GET" /\ response[r].status = 501
  /\ \E r \in Requests : Done(r) /\ method[r] = "POST" /\ response[r].status = 400

\* The request passed the method, email and captcha checks.
Passed(r) ==
  /\ method[r] = "POST"
  /\ IsEmail(email[r])
  /\ IS_CAPTCHA_ENABLED => ValidateCaptchaResult(token[r])

\* C11: with no backend configured every request that passes validation is
\* answered 200 with the sample ticket number and a random id, whether or not
\* its email was seen before, and nothing is stored or looked up.
C11_SampleModeFixedTicket ==
  (~redis /\ ~supabase) =>
    /\ StoreUntouched
    /\ created = {}
    /\ \A r \in Requests :
         /\ pc[r] \in {"idle", "captcha", "done"}
         /\ storeCalls[r] = 0
         /\ (Done(r) /\ Passed(r)) =>
              /\ response[r].status = 200
              /\ response[r].ticketNumber = SAMPLE_TICKET_NUMBER
              /\ response[r].id \in NanoIds
              /\ response[r].email = email[r]

\* C11 witness: the same email was answered twice in sample mode.
C11_Witness ==
  /\ ~redis /\ ~supabase
  /\ \E r, q \in Requests :
       /\ r # q
       /\ Success(r) /\ Success(q)
       /\ email[r] = email[q]
       /\ response[r].ticketNumber = SAMPLE_TICKET_NUMBER
       /\ response[q].ticketNumber = SAMPLE_TICKET_NUMBER

\* Of any two key-value records, the one stamped earlier holds the smaller
\* ticket number.
CreationOrder ==
  \A k1, k2 \in DOMAIN hashes :
    ParseInt(hashes[k1].createdAt) < ParseInt(hashes[k2].createdAt)
      => ParseInt(hashes[k1].ticketNumber) < ParseInt(hashes[k2].ticketNumber)

\* C12 as claimed: in the key-value variant the record created earlier has
\* the smaller ticket number, under any interleaving.
C12_TicketsInCreationOrder == redis => CreationOrder

\* C12 amended: in the key-value variant the record created earlier has the
\* smaller ticket number as long as no two requests' store accesses have
\* overlapped.
C12_TicketsInCreationOrderUnlessRaced == (redis /\ ~overlapped) => CreationOrder

\* C12 witness: two registrations made one after the other, at different
\* times.
C12_Witness ==
  /\ redis /\ ~overlapped
  /\ \E k1, k2 \in DOMAIN hashes :
       /\ ParseInt(hashes[k1].createdAt) < ParseInt(hashes[k2].createdAt)
       /\ ParseInt(hashes[k1].ticketNumber) < ParseInt(hashes[k2].ticketNumber)

StoreUnchanged ==
  hashes' = hashes /\ count' = count /\ registrations' = registrations

\* C13: a request that finds an existing registration changes nothing in the
\* store: neither its lookup nor its second read writes a field, increments
\* the counter or inserts a row, and it issues reads only.
C13_ExistingPathReadOnly ==
  [][ (redis \/ supabase) =>
        \A r \in Requests :
          /\ (pc[r] = "hget" /\ pc'[r] = "hmget") => StoreUnchanged
          /\ (pc[r] # "done" /\ pc'[r] = "done" /\ response'[r].status = 200)
               => /\ StoreUnchanged
                  /\ storeCalls'[r] = IF redis THEN 2 ELSE 1 ]_vars

\* C13 witness: a request for a registered email was answered 200.
C13_Witness ==
  /\ redis \/ supabase
  /\ \E r \in Requests : Done(r) /\ response[r].status = 200 /\ prior[r] # {}

\* C14: two requests are both answered 201 for one email only when store
\* accesses overlapped; in the key-value variant they then hold different
\* ticket numbers and the single record holds one of them.
C14_DoubleCreationNeedsRace ==
  \A r, q \in Requests :
    (r # q /\ Done(r) /\ Done(q) /\ response[r].status = 201
       /\ response[q].status = 201 /\ email[r] = email[q]) =>
      /\ overlapped
      /\ redis =>
           /\ response[r].ticketNumber # response[q].ticketNumber
           /\ HashKey(id[r]) \in DOMAIN hashes
           /\ \E c \in created :
                /\ c.email = email[r]
                /\ hashes[HashKey(id[r])].ticketNumber = NumToString(c.ticketNumber)

\* C14 witness: both requests for one email were answered 201, with ticket
\* numbers 1 and 2, and the record holds the 2 written last.
C14_Witness ==
  /\ redis
  /\ \E r, q \in Requests :
       /\ Done(r) /\ Done(q)
       /\ email[r] = email[q]
       /\ response[r].status = 201 /\ response[r].ticketNumber = 1
       /\ response[q].status = 201 /\ response[q].ticketNumber = 2
       /\ hashes[HashKey(id[r])].ticketNumber = NumToString(2)

\* C15: the validator is called only for a POST with a valid email while
\* enforcement is on, and a store operation is issued only for a POST with a
\* valid email whose captcha check has passed or was skipped because
\* enforcement is off.
C15_StepOrder ==
  \A r \in Requests :
    /\ (pc[r] = "captcha" \/ captchaCalls[r] > 0) =>
         /\ IS_CAPTCHA_ENABLED
         /\ method[r] = "POST"
         /\ IsEmail(email[r])
    /\ pc[r] = "captcha" => (storeCalls[r] = 0 /\ captchaCalls[r] = 0)
    /\ (storeCalls[r] > 0 \/ pc[r] \in StorePcs) =>
         /\ method[r] = "POST"
         /\ IsEmail(email[r])
         /\ IF IS_CAPTCHA_ENABLED
            THEN captchaCalls[r] = 1 /\ ValidateCaptchaResult(token[r])
            ELSE captchaCalls[r] = 0

\* C15 witness: with enforcement on, a request reached the store after its
\* one validator call.
C15_Witness ==
  /\ IS_CAPTCHA_ENABLED
  /\ \E r \in Requests : storeCalls[r] > 0 /\ captchaCalls[r] = 1

KvPcs == {"hget", "hmget", "incr", "stamp", "hmset"}

SbPcs == {"select", "count", "insert"}

\* C16: with the key-value store configured no request reads or writes the
\* relational store; the relational store is used only when the key-value
\* store is absent; with neither, no store is used.
C16_KeyValueFirst ==
  /\ redis =>
       /\ registrations = << >>
       /\ \A r \in Requests : pc[r] \notin SbPcs
  /\ ~redis =>
       /\ hashes = << >> /\ count = 0
       /\ \A r \in Requests : pc[r] \notin KvPcs
  /\ (~redis /\ ~supabase) =>
       /\ registrations = << >>
       /\ \A r \in Requests : pc[r] \notin StorePcs /\ storeCalls[r] = 0
  /\ (~redis /\ supabase) =>
       \A r \in Requests : Success(r) => response[r].id \notin NanoIds

\* C16 witness: with both stores configured a registration went to the
\* key-value store.
C16_Witness ==
  /\ redis /\ supabase
  /\ hashes # << >>
  /\ registrations = << >>

\* The request wrote a registration of its own.
Persisted(r) ==
  /\ storeCalls[r] = 3
  /\ Creation(response[r]) \in created
  /\ IF redis
     THEN ~Truthy(existingTicketNumberString[r]) /\ HashKey(id[r]) \in DOMAIN hashes
     ELSE \E i \in 1..Len(registrations) : registrations[i].id = id[r]

\* The request found a registration and issued reads only.
Found(r) ==
  IF redis
  THEN storeCalls[r] = 2 /\ Truthy(existingTicketNumberString[r])
  ELSE /\ storeCalls[r] = 1
       /\ \E i \in 1..Len(registrations) : registrations[i].email = email[r]

\* C17: every response has status 200, 201, 400 or 501; on the persistent
\* backends 201 is sent exactly by the requests that persisted a new
\* registration and 200 exactly by those that found an existing one.
C17_StatusCodes ==
  \A r \in Requests :
    Done(r) =>
      /\ response[r].status \in {200, 201, 400, 501}
      /\ (redis \/ supabase) =>
           /\ response[r].status = 201 <=> Persisted(r)
           /\ response[r].status = 200 <=> Found(r)

\* C17 witness: on a persistent backend one request was answered 201 and a
\* later one 200.
C17_Witness ==
  /\ redis \/ supabase
  /\ \E r, q \in Requests :
       /\ Done(r) /\ response[r].status = 201
       /\ Done(q) /\ response[q].status = 200

\* C18: of two requests answered one after the other whose raw emails differ
\* only in surrounding white space or letter case, the second is answered 200
\* with the ticket number of the first.
C18_NormalizedLookup ==
  (redis \/ supabase) =>
    \A q, r \in Requests :
      (q < r /\ Success(q) /\ Success(r)
         /\ rawEmail[q] # rawEmail[r]
         /\ ToLowerCase(Trim(rawEmail[q])) = ToLowerCase(Trim(rawEmail[r]))) =>
        /\ email[r] = email[q]
        /\ response[r].status = 200
        /\ response[r].ticketNumber = response[q].ticketNumber

\* C18 witness: " A@b.io " was registered and "a@b.io" then found it (or the
\* other way round).
C18_Witness ==
  /\ redis \/ supabase
  /\ \E q, r \in Requests :
       /\ q < r
       /\ rawEmail[q] # rawEmail[r]
       /\ email[q] = email[r]
       /\ Done(q) /\ response[q].status = 201
       /\ Done(r) /\ response[r].status = 200
       /\ response[r].ticketNumber = response[q].ticketNumber

\* C19 as claimed: in the key-value variant every 200 response reports a
\* ticketNumber and a createdAt that one written version of the record held
\* together.
C19_NoTornRead ==
  \A r \in Requests :
    (redis /\ Done(r) /\ response[r].status = 200) =>
      \E c \in created :
        /\ c.email = email[r]
        /\ c.ticketNumber = response[r].ticketNumber
        /\ c.createdAt = response[r].createdAt

\* C19 amended: in the key-value variant every 200 response reports a
\* ticketNumber and a createdAt that written versions of the record held, and
\* one version held both as long as no two requests' store accesses have
\* overlapped.
C19_NoTornReadUnlessRaced ==
  \A r \in Requests :
    (redis /\ Done(r) /\ response[r].status = 200) =>
      \E c1, c2 \in created :
        /\ c1.email = email[r] /\ c2.email = email[r]
        /\ c1.ticketNumber = response[r].ticketNumber
        /\ c2.createdAt = response[r].createdAt
        /\ ~overlapped => c1 = c2

\* C19 witness: a 200 response reports the ticket number of one version and
\* the createdAt of another.
C19_Witness ==
  /\ redis
  /\ \E r \in Requests :
       /\ Done(r) /\ response[r].status = 200
       /\ \E c1, c2 \in created :
            /\ c1.email = email[r] /\ c2.email = email[r]
            /\ c1.ticketNumber = response[r].ticketNumber
            /\ c2.createdAt = response[r].createdAt
            /\ c1.createdAt # c2.createdAt

\* The requests before r that passed validation.
Earlier(r) == {q \in 1..(r - 1) : Passed(q)}

\* The outcome of request r as the request sequence alone determines it: new
\* when no earlier request carried its email, numbered by first occurrence.
RefIsNew(r) == \A q \in Earlier(r) : email[q] # email[r]

RefFirst(r) ==
  IF RefIsNew(r) THEN r
  ELSE CHOOSE q \in Earlier(r) :
         /\ email[q] = email[r]
         /\ \A p \in Earlier(q) : email[p] # email[r]

RefTicket(r) == Cardinality({email[q] : q \in Earlier(RefFirst(r))}) + 1

\* C20: with requests handled one at a time, the key-value and the
\* relational variant both answer every request with the status and ticket
\* number that the request sequence alone determines, hence with the same
\* ones.
C20_BackendsAgree ==
  (redis \/ supabase) =>
    \A r \in Requests :
      (Done(r) /\ Passed(r)) =>
        /\ response[r].status = IF RefIsNew(r) THEN 201 ELSE 200
        /\ response[r].ticketNumber = RefTicket(r)

\* C20 witness: the relational variant answered a, c, a with 201/1, 201/2,
\* 200/1.
C20_Witness ==
  /\ supabase /\ ~redis
  /\ \A r \in Requests : Done(r)
  /\ response[1].status = 201 /\ response[1].ticketNumber = 1
  /\ response[2].status = 201 /\ response[2].ticketNumber = 2
  /\ response[3].status = 200 /\ response[3].ticketNumber = 1

====
